---------------------------- MODULE Spec2Model ----------------------------
(***************************************************************************)
(* Go-kart telemetry: the frame transport (middleware/can_manager.py), the *)
(* status codec (middleware/vesc_codec.py), the status aggregator          *)
(* (TelemetryBridge in main.py) and the packing of frames by the traffic   *)
(* generator (mock/simulator.py).                                          *)
(*                                                                         *)
(* Spec     the transport: caller threads issuing CANManager calls, the    *)
(*          receive worker threads, the dispatch-table lock.               *)
(* FairSpec Spec, with every thread that can run eventually running.       *)
(* SpecSeq  the transport driven by the one main thread, send() included.  *)
(* SpecAgg  the aggregator and codec: frames handed to on_can_message.     *)
(* SpecParts the behaviours of Spec and those of SpecAgg.                  *)
(* SpecCodec decode_status_frame called once on an identifier and payload. *)
(* SpecMerge merge_status_frames called once on a list of records.         *)
(* SpecWire frames packed as the generator (mock/simulator.py) packs them  *)
(*          and handed to on_can_message.                                  *)
(* SpecGen  one generation step of the simulator from a state of it.       *)
(*                                                                         *)
(* Threads interleave at the granularity of one read or write of shared    *)
(* state (the interpreter switches threads between bytecodes); steps that  *)
(* touch only thread-local state are folded into the neighbouring step.    *)
(***************************************************************************)
EXTENDS Integers, Sequences, FiniteSets, TLC

(***************************************************************************)
(* Bounds of the model.                                                    *)
(***************************************************************************)
\* API calls issued by the caller threads in one behaviour.
MaxCalls == 4
\* Frames that arrive (on the bus, or by injection) in one behaviour.
MaxFrames == 2
\* Frames handed to on_can_message in one behaviour of SpecAgg.
MaxArrivals == 3
\* Records handed to one call of merge_status_frames in SpecMerge.
MaxMergeFrames == 3
\* Longest payload handed to decode_status_frame in SpecCodec.
MaxPayloadLen == 9
\* Frames packed and handed to the aggregator in one behaviour of SpecWire.
MaxWireFrames == 2

\* Threads that call the CANManager API.
Callers == {"t1", "t2"}
\* threading.Thread objects start_receive_thread may create.
Workers == {"w1", "w2"}
\* Frame identifiers seen by the transport, and callables given as handlers.
CanIds == {2, 3}
Handlers == {"h1", "h2"}
None == "None"
\* The thread that runs main(): every CANManager call of main.py is made by it.
MainThread == "t1"
\* Identifiers and payloads given to send(): a valid identifier and one that
\* "=I" cannot pack; payloads longer than, shorter than and of 8 bytes.
SendIds == {2, -1}
SendPayloads == {<<1, 2, 3, 4, 5, 6, 7, 8, 9>>, <<1, 2, 3>>,
                 <<9, 8, 7, 6, 5, 4, 3, 2>>}

VARIABLES
    \* ---- CANManager fields (can_manager.py 35-41)
    virtual,         \* self.virtual
    running,         \* self.running
    socket,          \* self.socket: None, "open" (bound), "unbound"
    receive_thread,  \* self.receive_thread: None or a worker
    callbacks,       \* self.callbacks: CAN id -> handler (None: no entry)
    lock,            \* self.lock: None (free) or the thread holding it
    \* ---- threads
    cpc,             \* caller thread -> position in the call it executes
    cjoin,           \* caller thread -> the thread its disconnect() joins
    wpc,             \* worker -> position in Thread.start / _receive_loop
    wframe,          \* worker / injecting caller -> the frame it holds
    called,          \* worker / injecting caller -> the callback it is running
    \* ---- environment
    rxq,             \* frames queued on the endpoint, oldest first
    arrived,         \* frames that have arrived so far
    calls,           \* API calls issued so far
    \* ---- history
    dispatched,      \* arrival numbers of the frames handed to a handler, in order
    faults,          \* arrival numbers of the frames whose handler raised
    phase,           \* "new"; "connected" once a connect() has succeeded;
                     \* "disconnected" once a disconnect() of a connected transport
                     \* has returned and no connect() has succeeded since
    \* ---- send
    sending,         \* caller thread -> the arguments of the send() it executes
    tx,              \* packets written to the socket: how many (n) and the last
                     \* one (pkt); writes that raised (err)
    sret,            \* caller thread -> what its last send() returned
    \* ---- TelemetryBridge (main.py 54-85) and its history
    status_cache,    \* self.status_cache: reserved id -> partial record (NoStatus: no entry)
    snapshot,        \* the _-prefixed telemetry fields of the bridge
    signals,         \* fields whose Changed signal the last update emitted
    emits,           \* calls of update_from_status so far
    agg_calls,       \* calls of on_can_message so far
    last_frame,      \* the frame of the last on_can_message call
    \* ---- a codec function, or the packing of a frame, called on its own
    arg,             \* the arguments of the call
    ret              \* the values it returned, one per call

svars == <<sending, tx, sret>>
tvars == <<virtual, running, socket, receive_thread, callbacks, lock, cpc, cjoin,
           wpc, wframe, called, rxq, arrived, calls, dispatched, faults, phase,
           svars>>
avars == <<status_cache, snapshot, signals, emits, agg_calls, last_frame>>
pvars == <<arg, ret>>
vars == <<tvars, avars, pvars>>

Threads == Callers \cup Workers
NoFrame == [id |-> 0, seq |-> 0]
\* No send() in progress; no packet written yet.
NoSend == <<>>
\* struct.error raised by struct.pack, in place of the payload.
PackError == <<-1>>

\* Thread.is_alive(): started and run() not finished.
Alive(w) == wpc[w] \notin {"unused", "created", "dead"}


\* A worker the caller of join() would wait on for an unbounded time: it is
\* inside the frame read with nothing queued, inside a handler, or waiting for
\* the dispatch lock.  Everything else the loop does completes at once.
Blocked(w) ==
    \/ wpc[w] \in {"recv", "recv_unbound"} /\ rxq = <<>>
    \/ wpc[w] \in {"handler", "h_wait"}
    \/ wpc[w] = "lock" /\ lock # None

\* A caller thread is between two API calls and may issue another one.
CanCall(t) == cpc[t] = "idle" /\ calls < MaxCalls

\* Frames queued on a socket are discarded with it, unless a frame read is in
\* flight on it (the read keeps the kernel socket alive).
QueueAfterClose == IF \E w \in Workers : wpc[w] = "recv" THEN rxq ELSE <<>>

(***************************************************************************)
(* CANManager.connect                                                      *)
(***************************************************************************)
\* A virtual connect that opens a socket all the same.
ConnectVirtual_Socket(t) ==
    /\ CanCall(t) /\ virtual
    /\ running' = TRUE
    /\ socket' = "open"
    /\ phase' = "connected"
    /\ calls' = calls + 1
    /\ UNCHANGED <<virtual, receive_thread, callbacks, lock, cpc, cjoin,
                   wpc, wframe, rxq, arrived, dispatched, faults>>
    /\ UNCHANGED <<avars, pvars, svars, called>>

\* virtual mode (50-53): no socket, running = True.
ConnectVirtual(t) ==
    /\ CanCall(t) /\ virtual
    /\ running' = TRUE
    /\ phase' = "connected"
    /\ calls' = calls + 1
    /\ UNCHANGED <<virtual, socket, receive_thread, callbacks, lock, cpc, cjoin,
                   wpc, wframe, rxq, arrived, dispatched, faults>>
    /\ UNCHANGED <<avars, pvars, svars, called>>

\* A connect whose except clause re-raises the failure instead of returning.
ConnectOpen_Raises(t) ==
    /\ CanCall(t) /\ ~virtual
    /\ calls' = calls + 1
    /\ \E outcome \in {"ok", "socket_fails", "bind_fails"} :
          CASE outcome = "ok" ->
                 /\ socket' = "open"
                 /\ rxq' = QueueAfterClose
                 /\ cpc' = [cpc EXCEPT ![t] = "c_run"]
            [] outcome = "socket_fails" ->
                 /\ UNCHANGED <<socket, rxq>>
                 /\ cpc' = [cpc EXCEPT ![t] = "raised"]
            [] outcome = "bind_fails" ->
                 /\ socket' = "unbound"
                 /\ rxq' = QueueAfterClose
                 /\ cpc' = [cpc EXCEPT ![t] = "raised"]
    /\ UNCHANGED <<virtual, running, receive_thread, callbacks, lock, cjoin,
                   wpc, wframe, arrived, dispatched, faults, phase>>
    /\ UNCHANGED <<avars, pvars, svars, called>>

\* live mode, 57-58: socket.socket(...) then bind.  socket() may raise (the
\* field keeps its value), bind may raise (the field holds the unbound socket);
\* both are caught at 61 and connect returns False: the caller is back at
\* "idle" (a call that ends by an exception leaves its thread at "raised").
ConnectOpen(t) ==
    /\ CanCall(t) /\ ~virtual
    /\ calls' = calls + 1
    /\ \E outcome \in {"ok", "socket_fails", "bind_fails"} :
          CASE outcome = "ok" ->
                 /\ socket' = "open"
                 /\ rxq' = QueueAfterClose
                 /\ cpc' = [cpc EXCEPT ![t] = "c_run"]
            [] outcome = "socket_fails" ->
                 /\ UNCHANGED <<socket, rxq, cpc>>
            [] outcome = "bind_fails" ->
                 /\ socket' = "unbound"
                 /\ rxq' = QueueAfterClose
                 /\ UNCHANGED cpc
    /\ UNCHANGED <<virtual, running, receive_thread, callbacks, lock, cjoin,
                   wpc, wframe, arrived, dispatched, faults, phase>>
    /\ UNCHANGED <<avars, pvars, svars, called>>

\* live mode, 59-60: running = True; return True.
ConnectRun(t) ==
    /\ cpc[t] = "c_run"
    /\ running' = TRUE
    /\ phase' = "connected"
    /\ cpc' = [cpc EXCEPT ![t] = "idle"]
    /\ UNCHANGED <<virtual, socket, receive_thread, callbacks, lock, cjoin,
                   wpc, wframe, rxq, arrived, calls, dispatched, faults>>
    /\ UNCHANGED <<avars, pvars, svars, called>>

(***************************************************************************)
(* CANManager.disconnect                                                   *)
(***************************************************************************)
\* 67: self.running = False
DisconnectStop(t) ==
    /\ CanCall(t)
    /\ calls' = calls + 1
    /\ running' = FALSE
    /\ cpc' = [cpc EXCEPT ![t] = "d_close"]
    /\ UNCHANGED <<virtual, socket, receive_thread, callbacks, lock, cjoin,
                   wpc, wframe, rxq, arrived, dispatched, faults, phase>>
    /\ UNCHANGED <<avars, pvars, svars, called>>

\* 68-73: close the socket if there is one and forget it.
DisconnectClose(t) ==
    /\ cpc[t] = "d_close"
    /\ socket' = None
    /\ rxq' = IF socket = None THEN rxq ELSE QueueAfterClose
    /\ cpc' = [cpc EXCEPT ![t] = "d_join"]
    /\ UNCHANGED <<virtual, running, receive_thread, callbacks, lock, cjoin,
                   wpc, wframe, arrived, calls, dispatched, faults, phase>>
    /\ UNCHANGED <<avars, pvars, svars, called>>

\* disconnect() returns to its caller.
DisconnectReturn(t) ==
    /\ cpc' = [cpc EXCEPT ![t] = "idle"]
    /\ cjoin' = [cjoin EXCEPT ![t] = None]
    /\ phase' = IF phase = "connected" /\ ~running THEN "disconnected" ELSE phase

\* 75: the test that guards the join; 76: the join begins.
DisconnectJoin(t) ==
    /\ cpc[t] = "d_join"
    /\ IF receive_thread # None /\ Alive(receive_thread)
          THEN /\ cpc' = [cpc EXCEPT ![t] = "d_joining"]
               /\ cjoin' = [cjoin EXCEPT ![t] = receive_thread]
               /\ UNCHANGED phase
          ELSE DisconnectReturn(t)
    /\ UNCHANGED <<virtual, running, socket, receive_thread, callbacks, lock,
                   wpc, wframe, rxq, arrived, calls, dispatched, faults>>
    /\ UNCHANGED <<avars, pvars, svars, called>>

\* 76: join(timeout=1.0) returns because the worker has exited.
JoinExited(t) ==
    /\ cpc[t] = "d_joining"
    /\ ~Alive(cjoin[t])
    /\ DisconnectReturn(t)
    /\ UNCHANGED <<virtual, running, socket, receive_thread, callbacks, lock,
                   wpc, wframe, rxq, arrived, calls, dispatched, faults>>
    /\ UNCHANGED <<avars, pvars, svars, called>>

\* 76: join(timeout=1.0) returns because the second has passed; its result is
\* not looked at.
JoinTimedOut(t) ==
    /\ cpc[t] = "d_joining"
    /\ Alive(cjoin[t]) /\ Blocked(cjoin[t])
    /\ DisconnectReturn(t)
    /\ UNCHANGED <<virtual, running, socket, receive_thread, callbacks, lock,
                   wpc, wframe, rxq, arrived, calls, dispatched, faults>>
    /\ UNCHANGED <<avars, pvars, svars, called>>

\* A register_callback that keeps the handler an identifier already has.
register_callback_KeepFirst(t, can_id, callback) ==
    /\ CanCall(t)
    /\ lock = None
    /\ calls' = calls + 1
    /\ callbacks' = IF callbacks[can_id] = None
                       THEN [callbacks EXCEPT ![can_id] = callback]
                       ELSE callbacks
    /\ UNCHANGED <<virtual, running, socket, receive_thread, lock, cpc, cjoin,
                   wpc, wframe, rxq, arrived, dispatched, faults, phase>>
    /\ UNCHANGED <<avars, pvars, svars, called>>

(***************************************************************************)
(* CANManager.register_callback / unregister_callback                      *)
(***************************************************************************)
\* 86-87: with self.lock: self.callbacks[can_id] = callback.  The call waits
\* until the lock is free.
register_callback(t, can_id, callback) ==
    /\ CanCall(t)
    /\ lock = None
    /\ calls' = calls + 1
    /\ callbacks' = [callbacks EXCEPT ![can_id] = callback]
    /\ UNCHANGED <<virtual, running, socket, receive_thread, lock, cpc, cjoin,
                   wpc, wframe, rxq, arrived, dispatched, faults, phase>>
    /\ UNCHANGED <<avars, pvars, svars, called>>

\* 91-92: with self.lock: self.callbacks.pop(can_id, None)
unregister_callback(t, can_id) ==
    /\ CanCall(t)
    /\ lock = None
    /\ calls' = calls + 1
    /\ callbacks' = [callbacks EXCEPT ![can_id] = None]
    /\ UNCHANGED <<virtual, running, socket, receive_thread, lock, cpc, cjoin,
                   wpc, wframe, rxq, arrived, dispatched, faults, phase>>
    /\ UNCHANGED <<avars, pvars, svars, called>>

(***************************************************************************)
(* CANManager.start_receive_thread                                         *)
(***************************************************************************)
\* Thread objects not yet handed out, less those already promised to a caller
\* that has passed the test at 166.
FreeWorkers == {w \in Workers : wpc[w] = "unused"}
Creating == {t \in Callers : cpc[t] = "s_create"}

\* 163-167: return in virtual mode, or when the recorded thread is alive.
StartCheck(t) ==
    /\ CanCall(t)
    /\ calls' = calls + 1
    /\ IF virtual \/ (receive_thread # None /\ Alive(receive_thread))
          THEN UNCHANGED cpc
          ELSE /\ Cardinality(FreeWorkers) > Cardinality(Creating)
               /\ cpc' = [cpc EXCEPT ![t] = "s_create"]
    /\ UNCHANGED <<virtual, running, socket, receive_thread, callbacks, lock, cjoin,
                   wpc, wframe, rxq, arrived, dispatched, faults, phase>>
    /\ UNCHANGED <<avars, pvars, svars, called>>

\* 169: self.receive_thread = threading.Thread(target=self._receive_loop, ...)
StartCreate(t) ==
    /\ cpc[t] = "s_create"
    /\ LET w == CHOOSE x \in FreeWorkers : TRUE
       IN  /\ receive_thread' = w
           /\ wpc' = [wpc EXCEPT ![w] = "created"]
    /\ cpc' = [cpc EXCEPT ![t] = "s_start"]
    /\ UNCHANGED <<virtual, running, socket, callbacks, lock, cjoin,
                   wframe, rxq, arrived, calls, dispatched, faults, phase>>
    /\ UNCHANGED <<avars, pvars, svars, called>>

\* 170: self.receive_thread.start().  The field is read again: it may by now
\* hold a thread another caller has created, and starting a thread a second
\* time raises RuntimeError.
StartThread(t) ==
    /\ cpc[t] = "s_start"
    /\ IF wpc[receive_thread] = "created"
          THEN /\ wpc' = [wpc EXCEPT ![receive_thread] = "loop"]
               /\ cpc' = [cpc EXCEPT ![t] = "idle"]
          ELSE /\ cpc' = [cpc EXCEPT ![t] = "raised"]
               /\ UNCHANGED wpc
    /\ UNCHANGED <<virtual, running, socket, receive_thread, callbacks, lock, cjoin,
                   wframe, rxq, arrived, calls, dispatched, faults, phase>>
    /\ UNCHANGED <<avars, pvars, svars, called>>


(***************************************************************************)
(* The bus                                                                 *)
(***************************************************************************)
\* A frame arrives on the bound endpoint (or on a socket a read is in flight
\* on) and is queued.  SocketCAN delivers whole 16-byte frames, so the short
\* packet test at 138 never takes its branch.
FrameArrives(can_id) ==
    /\ arrived < MaxFrames
    /\ socket = "open" \/ \E w \in Workers : wpc[w] = "recv"
    /\ arrived' = arrived + 1
    /\ rxq' = Append(rxq, [id |-> can_id, seq |-> arrived + 1])
    /\ UNCHANGED <<virtual, running, socket, receive_thread, callbacks, lock, cpc,
                   cjoin, wpc, wframe, calls, dispatched, faults, phase>>
    /\ UNCHANGED <<avars, pvars, svars, called>>

(***************************************************************************)
(* CANManager._receive_loop, run by a worker thread                        *)
(***************************************************************************)
\* 131-137: while self.running; if not self.socket: break; the frame read is
\* entered on the socket found.  No timeout is ever set on the socket (57-58),
\* so the read returns only with a frame or an error.
WorkerLoop(w) ==
    /\ wpc[w] = "loop"
    /\ wpc' = [wpc EXCEPT ![w] =
                  IF ~running \/ socket = None THEN "dead"
                  ELSE IF socket = "open" THEN "recv" ELSE "recv_unbound"]
    /\ UNCHANGED <<virtual, running, socket, receive_thread, callbacks, lock, cpc,
                   cjoin, wframe, rxq, arrived, calls, dispatched, faults,
                   phase>>
    /\ UNCHANGED <<avars, pvars, svars, called>>

\* 137-143: recv returns the oldest queued frame; id and payload are unpacked.
WorkerRecv(w) ==
    /\ wpc[w] = "recv"
    /\ rxq # <<>>
    /\ wframe' = [wframe EXCEPT ![w] = Head(rxq)]
    /\ rxq' = Tail(rxq)
    /\ wpc' = [wpc EXCEPT ![w] = "lock"]
    /\ UNCHANGED <<virtual, running, socket, receive_thread, callbacks, lock, cpc,
                   cjoin, arrived, calls, dispatched, faults, phase>>
    /\ UNCHANGED <<avars, pvars, svars, called>>

\* 156-159: recv raises something other than socket.timeout: break.
WorkerRecvError(w) ==
    /\ wpc[w] \in {"recv", "recv_unbound"}
    /\ wpc' = [wpc EXCEPT ![w] = "dead"]
    /\ UNCHANGED <<virtual, running, socket, receive_thread, callbacks, lock, cpc,
                   cjoin, wframe, rxq, arrived, calls, dispatched, faults,
                   phase>>
    /\ UNCHANGED <<avars, pvars, svars, called>>

\* 146-150: with self.lock: callback = self.callbacks.get(can_id); the callback,
\* if there is one, is called with the lock held.
WorkerDispatch(w) ==
    /\ wpc[w] = "lock"
    /\ lock = None
    /\ IF callbacks[wframe[w].id] # None
          THEN /\ lock' = w
               /\ wpc' = [wpc EXCEPT ![w] = "handler"]
               /\ dispatched' = Append(dispatched, wframe[w].seq)
               /\ UNCHANGED wframe
          ELSE /\ wpc' = [wpc EXCEPT ![w] = "loop"]
               /\ wframe' = [wframe EXCEPT ![w] = NoFrame]
               /\ UNCHANGED <<lock, dispatched>>
    /\ UNCHANGED <<virtual, running, socket, receive_thread, callbacks, cpc, cjoin,
                   rxq, arrived, calls, faults, phase>>
    /\ called' = [called EXCEPT ![w] = callbacks[wframe[w].id]]
    /\ UNCHANGED <<avars, pvars, svars>>

\* 150: the handler returns; the with block ends and the loop goes on.
WorkerHandlerReturns(w) ==
    /\ wpc[w] = "handler"
    /\ lock' = None
    /\ wpc' = [wpc EXCEPT ![w] = "loop"]
    /\ wframe' = [wframe EXCEPT ![w] = NoFrame]
    /\ UNCHANGED <<virtual, running, socket, receive_thread, callbacks, cpc, cjoin,
                   rxq, arrived, calls, dispatched, faults, phase>>
    /\ called' = [called EXCEPT ![w] = None]
    /\ UNCHANGED <<avars, pvars, svars>>

\* 150: the handler raises an Exception.
WorkerHandlerRaises(w) ==
    /\ wpc[w] = "handler"
    /\ wpc' = [wpc EXCEPT ![w] = "except"]
    /\ faults' = faults \cup {wframe[w].seq}
    /\ UNCHANGED <<virtual, running, socket, receive_thread, callbacks, lock, cpc,
                   cjoin, wframe, rxq, arrived, calls, dispatched, phase>>
    /\ UNCHANGED <<avars, pvars, svars, called>>

\* WorkerHandlerExcept gone wrong: the handler's exception reaches the outer
\* except Exception (156-159) and the loop breaks.
WorkerHandlerExcept_Break(w) ==
    /\ wpc[w] = "except"
    /\ lock' = None
    /\ wpc' = [wpc EXCEPT ![w] = "dead"]
    /\ wframe' = [wframe EXCEPT ![w] = NoFrame]
    /\ UNCHANGED <<virtual, running, socket, receive_thread, callbacks, cpc, cjoin,
                   rxq, arrived, calls, dispatched, faults, phase>>
    /\ called' = [called EXCEPT ![w] = None]
    /\ UNCHANGED <<avars, pvars, svars>>

\* 151-152: except Exception inside the with block: print, leave the block,
\* next iteration.
WorkerHandlerExcept(w) ==
    /\ wpc[w] = "except"
    /\ lock' = None
    /\ wpc' = [wpc EXCEPT ![w] = "loop"]
    /\ wframe' = [wframe EXCEPT ![w] = NoFrame]
    /\ UNCHANGED <<virtual, running, socket, receive_thread, callbacks, cpc, cjoin,
                   rxq, arrived, calls, dispatched, faults, phase>>
    /\ called' = [called EXCEPT ![w] = None]
    /\ UNCHANGED <<avars, pvars, svars>>

\* 150 -> 86 / 91: the handler itself calls register_callback or
\* unregister_callback.  It waits for self.lock, a threading.Lock (41), which is
\* not reentrant and which its own thread holds: the wait never ends.
WorkerHandlerRegisters(w) ==
    /\ wpc[w] = "handler"
    /\ wpc' = [wpc EXCEPT ![w] = "h_wait"]
    /\ UNCHANGED <<virtual, running, socket, receive_thread, callbacks, lock, cpc,
                   cjoin, wframe, rxq, arrived, calls, dispatched, faults,
                   phase>>
    /\ UNCHANGED <<avars, pvars, svars, called>>

(***************************************************************************)
(* CANManager.send                                                         *)
(***************************************************************************)
\* data[:n]
Slice(data, n) == SubSeq(data, 1, IF Len(data) < n THEN Len(data) ELSE n)

\* An "8s" that writes the bytes it is given and does not fill.
PackBytes_Raw(s, n) == s

\* The "8s" of struct.pack: the bytes left-justified in n bytes, zero filled.
PackBytes(s, n) == [k \in 1..n |-> IF k <= Len(s) THEN s[k] ELSE 0]

\* 118: struct.pack("=IB3x8s", can_id, 0, data[:8]): the identifier, a byte
\* that is always 0, three pad bytes, eight data bytes.  "=I" raises
\* struct.error for an identifier below 0 (identifiers above 2^32 - 1 are
\* outside the model's integers).
PackCanFrame(can_id, data) ==
    IF can_id < 0 THEN PackError
    ELSE <<can_id, 0, PackBytes(Slice(data, 8), 8)>>

\* A send that exits at once with the value it returns.
SendReturns(t, value) ==
    /\ sret' = [sret EXCEPT ![t] = value]
    /\ UNCHANGED <<cpc, sending>>

\* A virtual send that hands the frame to the registered handler.
send_Loopback(t, can_id, data) ==
    /\ CanCall(t)
    /\ calls' = calls + 1
    /\ IF ~running THEN SendReturns(t, "False") /\ UNCHANGED <<arrived, dispatched>>
       ELSE IF virtual
               THEN /\ SendReturns(t, "True")
                    /\ arrived' = arrived + 1
                    /\ dispatched' = IF can_id \in CanIds /\ callbacks[can_id] # None
                                         THEN Append(dispatched, arrived + 1)
                                         ELSE dispatched
       ELSE IF socket = None THEN SendReturns(t, "False") /\ UNCHANGED <<arrived, dispatched>>
       ELSE /\ cpc' = [cpc EXCEPT ![t] = "s_write"]
            /\ sending' = [sending EXCEPT ![t] = [can_id |-> can_id, data |-> data]]
            /\ UNCHANGED <<sret, arrived, dispatched>>
    /\ UNCHANGED <<virtual, running, socket, receive_thread, callbacks, lock, cjoin,
                   wpc, wframe, rxq, faults, phase, tx>>
    /\ UNCHANGED <<avars, pvars, called>>

\* 105-114: not running: return False; virtual: log the frame, return True; no
\* socket: return False; otherwise go on to pack and write.  (self.running and
\* self.socket are read one after the other; a disconnect() between the two
\* reads gives the outcome of one that came before both, a connect() between
\* them the outcome of one that came after both.)
send(t, can_id, data) ==
    /\ CanCall(t)
    /\ calls' = calls + 1
    /\ IF ~running THEN SendReturns(t, "False")
       ELSE IF virtual THEN SendReturns(t, "True")
       ELSE IF socket = None THEN SendReturns(t, "False")
       ELSE /\ cpc' = [cpc EXCEPT ![t] = "s_write"]
            /\ sending' = [sending EXCEPT ![t] = [can_id |-> can_id, data |-> data]]
            /\ UNCHANGED sret
    /\ UNCHANGED <<virtual, running, socket, receive_thread, callbacks, lock, cjoin,
                   wpc, wframe, rxq, arrived, dispatched, faults, phase, tx>>
    /\ UNCHANGED <<avars, pvars, called>>

\* A write whose failure is not caught: the exception ends the caller's call.
SendWrite_Raises(t) ==
    /\ cpc[t] = "s_write"
    /\ LET pkt == PackCanFrame(sending[t].can_id, sending[t].data)
       IN  \E written \in BOOLEAN :
              /\ written => pkt # PackError /\ socket = "open"
              /\ tx' = IF written THEN [tx EXCEPT !.n = @ + 1, !.pkt = pkt]
                                   ELSE [tx EXCEPT !.err = @ + 1]
              /\ sret' = IF written THEN [sret EXCEPT ![t] = "True"] ELSE sret
              /\ cpc' = [cpc EXCEPT ![t] = IF written THEN "idle" ELSE "raised"]
    /\ sending' = [sending EXCEPT ![t] = NoSend]
    /\ UNCHANGED <<virtual, running, socket, receive_thread, callbacks, lock, cjoin,
                   wpc, wframe, rxq, arrived, calls, dispatched, faults, phase>>
    /\ UNCHANGED <<avars, pvars, called>>

\* 116-123: pack the frame and write it to the socket; return True.  Every
\* exception is caught and send returns False: struct.error of the pack, the
\* AttributeError of self.socket being None by now (a disconnect() since the
\* test at 113), the OSError of a write to an unbound socket, and the OSError
\* a write to a bound socket may raise.
SendWrite(t) ==
    /\ cpc[t] = "s_write"
    /\ LET pkt == PackCanFrame(sending[t].can_id, sending[t].data)
       IN  \E written \in BOOLEAN :
              /\ written => pkt # PackError /\ socket = "open"
              /\ tx' = IF written THEN [tx EXCEPT !.n = @ + 1, !.pkt = pkt]
                                   ELSE [tx EXCEPT !.err = @ + 1]
              /\ sret' = [sret EXCEPT ![t] = IF written THEN "True" ELSE "False"]
    /\ cpc' = [cpc EXCEPT ![t] = "idle"]
    /\ sending' = [sending EXCEPT ![t] = NoSend]
    /\ UNCHANGED <<virtual, running, socket, receive_thread, callbacks, lock, cjoin,
                   wpc, wframe, rxq, arrived, calls, dispatched, faults, phase>>
    /\ UNCHANGED <<avars, pvars, called>>

(***************************************************************************)
(* CANManager.inject_virtual_message                                       *)
(***************************************************************************)
\* 180-181: not virtual: return.
InjectLive(t) ==
    /\ CanCall(t) /\ ~virtual
    /\ calls' = calls + 1
    /\ UNCHANGED <<virtual, running, socket, receive_thread, callbacks, lock, cpc,
                   cjoin, wpc, wframe, rxq, arrived, dispatched, faults,
                   phase>>
    /\ UNCHANGED <<avars, pvars, svars, called>>

\* 183-187: with self.lock: callback = self.callbacks.get(can_id); the callback,
\* if there is one, is called with the lock held.  self.running is not read.
InjectDispatch(t, can_id) ==
    /\ CanCall(t) /\ virtual
    /\ arrived < MaxFrames
    /\ lock = None
    /\ calls' = calls + 1
    /\ arrived' = arrived + 1
    /\ IF callbacks[can_id] # None
          THEN /\ lock' = t
               /\ cpc' = [cpc EXCEPT ![t] = "handler"]
               /\ wframe' = [wframe EXCEPT ![t] = [id |-> can_id, seq |-> arrived + 1]]
               /\ dispatched' = Append(dispatched, arrived + 1)
          ELSE UNCHANGED <<lock, cpc, wframe, dispatched>>
    /\ UNCHANGED <<virtual, running, socket, receive_thread, callbacks, cjoin,
                   wpc, rxq, faults, phase>>
    /\ called' = [called EXCEPT ![t] = callbacks[can_id]]
    /\ UNCHANGED <<avars, pvars, svars>>

\* 187: the handler returns and inject_virtual_message with it.
InjectHandlerReturns(t) ==
    /\ cpc[t] = "handler"
    /\ lock' = None
    /\ cpc' = [cpc EXCEPT ![t] = "idle"]
    /\ wframe' = [wframe EXCEPT ![t] = NoFrame]
    /\ UNCHANGED <<virtual, running, socket, receive_thread, callbacks, cjoin,
                   wpc, rxq, arrived, calls, dispatched, faults, phase>>
    /\ called' = [called EXCEPT ![t] = None]
    /\ UNCHANGED <<avars, pvars, svars>>

\* 187: the handler raises an Exception.
InjectHandlerRaises(t) ==
    /\ cpc[t] = "handler"
    /\ cpc' = [cpc EXCEPT ![t] = "except"]
    /\ faults' = faults \cup {wframe[t].seq}
    /\ UNCHANGED <<virtual, running, socket, receive_thread, callbacks, lock, cjoin,
                   wpc, wframe, rxq, arrived, calls, dispatched, phase>>
    /\ UNCHANGED <<avars, pvars, svars, called>>

\* 188-189: except Exception: print; the call returns normally.
InjectHandlerExcept(t) ==
    /\ cpc[t] = "except"
    /\ lock' = None
    /\ cpc' = [cpc EXCEPT ![t] = "idle"]
    /\ wframe' = [wframe EXCEPT ![t] = NoFrame]
    /\ UNCHANGED <<virtual, running, socket, receive_thread, callbacks, cjoin,
                   wpc, rxq, arrived, calls, dispatched, faults, phase>>
    /\ called' = [called EXCEPT ![t] = None]
    /\ UNCHANGED <<avars, pvars, svars>>

\* 187 -> 86 / 91: the handler calls register_callback or unregister_callback
\* and waits for the lock its own thread holds.
InjectHandlerRegisters(t) ==
    /\ cpc[t] = "handler"
    /\ cpc' = [cpc EXCEPT ![t] = "h_wait"]
    /\ UNCHANGED <<virtual, running, socket, receive_thread, callbacks, lock, cjoin,
                   wpc, wframe, rxq, arrived, calls, dispatched, faults,
                   phase>>
    /\ UNCHANGED <<avars, pvars, svars, called>>


(***************************************************************************)
(* VESCStatus and VESCCodec (vesc_codec.py)                                *)
(*                                                                         *)
(* A field is held as the integer number of its wire units: tenths of a    *)
(* degree, ampere or volt, thousandths of duty, ten-thousandths of Ah and  *)
(* Wh.  The decoder's multiplication by 0.1, 0.001 or 0.0001 maps distinct *)
(* raw values to distinct floats and only raw zero to 0.0, so comparisons  *)
(* of fields are comparisons of these integers.  power is held in          *)
(* hundredths of a watt (tenths of a volt times tenths of an ampere) and   *)
(* efficiency in whole percent, rounded down.  tachometer_abs, an unsigned *)
(* 32-bit word on the wire, is held as its two 16-bit halves, low half     *)
(* first: the word itself does not fit the integers of the model.          *)
(***************************************************************************)
CAN_PACKET_STATUS == 2
CAN_PACKET_STATUS_2 == 3
CAN_PACKET_STATUS_3 == 4
CAN_PACKET_STATUS_4 == 5
CAN_PACKET_STATUS_5 == 6
ReservedIds == {CAN_PACKET_STATUS, CAN_PACKET_STATUS_2, CAN_PACKET_STATUS_3,
                CAN_PACKET_STATUS_4, CAN_PACKET_STATUS_5}

BaseFields == {"temp_mos", "temp_motor", "current_motor", "current_battery",
               "duty_cycle", "rpm", "voltage", "amp_hours_consumed",
               "amp_hours_charged", "watt_hours_consumed", "watt_hours_charged",
               "tachometer", "tachometer_abs", "fault_code"}
DerivedFields == {"power", "efficiency"}
Fields == BaseFields \cup DerivedFields

\* The number of model units of a field in one unit of the field: the decoders
\* multiply the wire integer by 0.1 (92-94, 114), 0.001 (95) or 0.0001 (131-132,
\* 149-150), or leave it as it is (113, 167-168).
Scale(f) ==
    CASE f \in {"temp_mos", "temp_motor", "current_motor", "current_battery",
                "voltage"} -> 10
      [] f = "duty_cycle" -> 1000
      [] f \in {"amp_hours_consumed", "amp_hours_charged", "watt_hours_consumed",
                "watt_hours_charged"} -> 10000
      [] f = "power" -> 100
      [] OTHER -> 1

\* The default of a field (16-33).
Zero(f) == IF f = "tachometer_abs" THEN <<0, 0>> ELSE 0
\* VESCStatus(): every field at its default.
VESCStatus == [f \in Fields |-> Zero(f)]
\* None where a VESCStatus is expected (Optional[VESCStatus], dict.get).
NoStatus == <<>>
\* struct.error raised by struct.unpack, in place of the record.
StructError == [raised |-> "struct.error"]

\* struct.unpack, little-endian: the unsigned integer in bytes i .. i+n-1 of
\* data (bytes counted from 0 as in the source), and its two's complement
\* reading.  unpack raises struct.error unless the buffer has exactly the 8
\* bytes of the format.
RECURSIVE Unsigned(_, _, _)
Unsigned(data, i, n) ==
    IF n = 0 THEN 0 ELSE data[i + 1] + 256 * Unsigned(data, i + 1, n - 1)

\* Signed16 gone wrong: "H" where the format has "h".
Signed16_Unsigned(data, i) == Unsigned(data, i, 2)

Signed16(data, i) ==
    LET u == Unsigned(data, i, 2) IN IF u >= 32768 THEN u - 65536 ELSE u

\* The top byte decides the sign; the value is assembled below 2^31.
Signed32(data, i) ==
    LET low == Unsigned(data, i, 3)
        top == data[i + 4]
    IN  IF top >= 128 THEN low + 16777216 * (top - 256) ELSE low + 16777216 * top

\* "I": the unsigned word in bytes i .. i+3, as its halves.
Word32(data, i) == <<Unsigned(data, i, 2), Unsigned(data, i + 2, 2)>>

\* "<hhhBx"
_decode_status_1(data) ==
    IF Len(data) < 8 THEN VESCStatus
    ELSE IF Len(data) # 8 THEN StructError
    ELSE [VESCStatus EXCEPT !["temp_mos"] = Signed16(data, 0),
                            !["current_motor"] = Signed16(data, 2),
                            !["current_battery"] = Signed16(data, 4),
                            !["duty_cycle"] = Unsigned(data, 6, 1)]

\* "<iHxx"
_decode_status_2(data) ==
    IF Len(data) < 8 THEN VESCStatus
    ELSE IF Len(data) # 8 THEN StructError
    ELSE [VESCStatus EXCEPT !["rpm"] = Signed32(data, 0),
                            !["voltage"] = Unsigned(data, 4, 2)]

\* "<ii"
_decode_status_3(data) ==
    IF Len(data) < 8 THEN VESCStatus
    ELSE IF Len(data) # 8 THEN StructError
    ELSE [VESCStatus EXCEPT !["amp_hours_consumed"] = Signed32(data, 0),
                            !["amp_hours_charged"] = Signed32(data, 4)]

\* "<ii"
_decode_status_4(data) ==
    IF Len(data) < 8 THEN VESCStatus
    ELSE IF Len(data) # 8 THEN StructError
    ELSE [VESCStatus EXCEPT !["watt_hours_consumed"] = Signed32(data, 0),
                            !["watt_hours_charged"] = Signed32(data, 4)]

\* A _decode_status_5 that also reads a fault code, from the first byte.
_decode_status_5_Fault(data) ==
    IF Len(data) < 8 THEN VESCStatus
    ELSE IF Len(data) # 8 THEN StructError
    ELSE [VESCStatus EXCEPT !["tachometer"] = Signed32(data, 0),
                            !["tachometer_abs"] = Word32(data, 4),
                            !["fault_code"] = data[1]]

\* _decode_status_5 gone wrong: the length is not tested before unpacking.
_decode_status_5_Unchecked(data) ==
    IF Len(data) # 8 THEN StructError
    ELSE [VESCStatus EXCEPT !["tachometer"] = Signed32(data, 0),
                            !["tachometer_abs"] = Word32(data, 4)]

\* "<iI"
_decode_status_5(data) ==
    IF Len(data) < 8 THEN VESCStatus
    ELSE IF Len(data) # 8 THEN StructError
    ELSE [VESCStatus EXCEPT !["tachometer"] = Signed32(data, 0),
                            !["tachometer_abs"] = Word32(data, 4)]

\* The fields the decoder of a frame type assigns (92-95, 113-114, 131-132,
\* 149-150, 167-168).
OwnedFields(can_id) ==
    CASE can_id = CAN_PACKET_STATUS ->
             {"temp_mos", "current_motor", "current_battery", "duty_cycle"}
      [] can_id = CAN_PACKET_STATUS_2 -> {"rpm", "voltage"}
      [] can_id = CAN_PACKET_STATUS_3 -> {"amp_hours_consumed", "amp_hours_charged"}
      [] can_id = CAN_PACKET_STATUS_4 -> {"watt_hours_consumed", "watt_hours_charged"}
      [] can_id = CAN_PACKET_STATUS_5 -> {"tachometer", "tachometer_abs"}
      [] OTHER -> {}

\* decode_status_frame gone wrong: an identifier that is not reserved decodes
\* to the default record.
decode_status_frame_Default(can_id, data) ==
    CASE can_id = CAN_PACKET_STATUS -> _decode_status_1(data)
      [] can_id = CAN_PACKET_STATUS_2 -> _decode_status_2(data)
      [] can_id = CAN_PACKET_STATUS_3 -> _decode_status_3(data)
      [] can_id = CAN_PACKET_STATUS_4 -> _decode_status_4(data)
      [] can_id = CAN_PACKET_STATUS_5 -> _decode_status_5(data)
      [] OTHER -> VESCStatus

decode_status_frame(can_id, data) ==
    CASE can_id = CAN_PACKET_STATUS -> _decode_status_1(data)
      [] can_id = CAN_PACKET_STATUS_2 -> _decode_status_2(data)
      [] can_id = CAN_PACKET_STATUS_3 -> _decode_status_3(data)
      [] can_id = CAN_PACKET_STATUS_4 -> _decode_status_4(data)
      [] can_id = CAN_PACKET_STATUS_5 -> _decode_status_5(data)
      [] OTHER -> NoStatus

\* MergeFrame gone wrong: a field once set is not replaced.
MergeFrame_FirstWins(merged, frame) ==
    [f \in Fields |->
        IF f \in BaseFields /\ frame[f] # Zero(f) /\ merged[f] = Zero(f)
           THEN frame[f] ELSE merged[f]]

\* 190-217: one pass of the loop body: a non-zero field of frame replaces the
\* accumulated one.
MergeFrame(merged, frame) ==
    [f \in Fields |->
        IF f \in BaseFields /\ frame[f] # Zero(f) THEN frame[f] ELSE merged[f]]

\* 185-187: the loop over the frames given, None skipped.
RECURSIVE MergeLoop(_, _)
MergeLoop(merged, status_frames) ==
    IF status_frames = <<>> THEN merged
    ELSE MergeLoop(IF Head(status_frames) = NoStatus THEN merged
                   ELSE MergeFrame(merged, Head(status_frames)),
                   Tail(status_frames))

\* Derive gone wrong: with no positive power the efficiency shown last is kept.
Derive_Stale(merged) ==
    LET power == merged["voltage"] * merged["current_battery"]
    IN  [merged EXCEPT
            !["power"] = power,
            !["efficiency"] =
                IF power > 0
                   THEN (merged["current_motor"] * merged["voltage"] * 100) \div power
                   ELSE snapshot["efficiency"]]

\* Derive gone wrong: the efficiency is computed whenever power is not zero.
Derive_Nonzero(merged) ==
    LET power == merged["voltage"] * merged["current_battery"]
    IN  [merged EXCEPT
            !["power"] = power,
            !["efficiency"] =
                IF power # 0
                   THEN (merged["current_motor"] * merged["voltage"] * 100) \div power
                   ELSE merged["efficiency"]]

\* 219-222: power, and efficiency when power is positive.
Derive(merged) ==
    LET power == merged["voltage"] * merged["current_battery"]
    IN  [merged EXCEPT
            !["power"] = power,
            !["efficiency"] =
                IF power > 0
                   THEN (merged["current_motor"] * merged["voltage"] * 100) \div power
                   ELSE merged["efficiency"]]

\* merge_status_frames gone wrong: the accumulator is what was merged last.
merge_status_frames_Accumulate(status_frames) ==
    Derive(MergeLoop(snapshot, status_frames))

merge_status_frames(status_frames) == Derive(MergeLoop(VESCStatus, status_frames))

(***************************************************************************)
(* TelemetryBridge (main.py)                                               *)
(***************************************************************************)
\* 87-162: every telemetry field of the bridge that differs from the status
\* is assigned from it and its Changed signal is emitted, so afterwards the
\* fields equal those of the status.  The speed shown, a fixed multiple of
\* rpm, is left to the presentation layer.
update_from_status(status) ==
    /\ snapshot' = [f \in Fields |-> IF snapshot[f] # status[f] THEN status[f]
                                                               ELSE snapshot[f]]
    /\ signals' = {f \in Fields : snapshot[f] # status[f]}
    /\ emits' = emits + 1

\* 344-350: the five slots in the order of the identifiers.
CachedFrames(cache) ==
    <<cache[CAN_PACKET_STATUS], cache[CAN_PACKET_STATUS_2], cache[CAN_PACKET_STATUS_3],
      cache[CAN_PACKET_STATUS_4], cache[CAN_PACKET_STATUS_5]>>

\* Frames handed to on_can_message: the five reserved identifiers and one that
\* is not reserved; payloads of 8 bytes and a truncated one.
AggIds == ReservedIds \cup {7}
Payloads == { <<250, 0, 100, 0, 150, 0, 50, 0>>,
              <<184, 11, 0, 0, 224, 1, 0, 0>>,
              <<0, 0, 0, 0, 0, 0, 0, 0>>,
              <<250, 0, 100, 0>> }

\* on_can_message gone wrong: a record with nothing in it does not replace the
\* slot of its type.
on_can_message_KeepSlot(can_id, data) ==
    LET status == decode_status_frame(can_id, data)
    IN  /\ agg_calls' = agg_calls + 1
        /\ last_frame' = [id |-> can_id, data |-> data]
        /\ IF status # NoStatus /\ status # StructError
              THEN LET cache == IF status = VESCStatus /\ status_cache[can_id] # NoStatus
                                   THEN status_cache
                                   ELSE [status_cache EXCEPT ![can_id] = status]
                       merged == merge_status_frames(CachedFrames(cache))
                   IN  /\ status_cache' = cache
                       /\ update_from_status(merged)
              ELSE UNCHANGED <<status_cache, snapshot, signals, emits>>
        /\ UNCHANGED tvars

\* on_can_message gone wrong: a merge that changes nothing is not passed on.
on_can_message_Quiet(can_id, data) ==
    LET status == decode_status_frame(can_id, data)
    IN  /\ agg_calls' = agg_calls + 1
        /\ last_frame' = [id |-> can_id, data |-> data]
        /\ IF status # NoStatus /\ status # StructError
              THEN LET cache == [status_cache EXCEPT ![can_id] = status]
                       merged == merge_status_frames(CachedFrames(cache))
                   IN  /\ status_cache' = cache
                       /\ IF \E f \in Fields : snapshot[f] # merged[f]
                             THEN update_from_status(merged)
                             ELSE UNCHANGED <<snapshot, signals, emits>>
              ELSE UNCHANGED <<status_cache, snapshot, signals, emits>>
        /\ UNCHANGED tvars

\* 335-353.  A VESCStatus object is always true, so "if status" is the test
\* for None.  A struct.error of the decoder leaves on_can_message at 338, before
\* anything is written.
on_can_message(can_id, data) ==
    LET status == decode_status_frame(can_id, data)
    IN  /\ agg_calls' = agg_calls + 1
        /\ last_frame' = [id |-> can_id, data |-> data]
        /\ IF status # NoStatus /\ status # StructError
              THEN LET cache == [status_cache EXCEPT ![can_id] = status]
                       merged == merge_status_frames(CachedFrames(cache))
                   IN  /\ status_cache' = cache
                       /\ update_from_status(merged)
              ELSE UNCHANGED <<status_cache, snapshot, signals, emits>>
        /\ UNCHANGED tvars

(***************************************************************************)
(* Specifications                                                          *)
(***************************************************************************)
\* CANManager.__init__ (35-41); no thread exists yet.
TInit ==
    /\ virtual \in BOOLEAN
    /\ running = FALSE
    /\ socket = None
    /\ receive_thread = None
    /\ callbacks = [i \in CanIds |-> None]
    /\ lock = None
    /\ cpc = [t \in Callers |-> "idle"]
    /\ cjoin = [t \in Callers |-> None]
    /\ wpc = [w \in Workers |-> "unused"]
    /\ wframe = [x \in Threads |-> NoFrame]
    /\ called = [x \in Threads |-> None]
    /\ rxq = <<>>
    /\ arrived = 0
    /\ calls = 0
    /\ dispatched = <<>>
    /\ faults = {}
    /\ phase = "new"
    /\ sending = [t \in Callers |-> NoSend]
    /\ tx = [n |-> 0, pkt |-> NoSend, err |-> 0]
    /\ sret = [t \in Callers |-> None]

\* TelemetryBridge.__init__ (58-80)
AInit ==
    /\ status_cache = [i \in ReservedIds |-> NoStatus]
    /\ snapshot = VESCStatus
    /\ signals = {}
    /\ emits = 0
    /\ agg_calls = 0
    /\ last_frame = [id |-> 0, data |-> <<>>]

\* No codec function has been called on its own.
PInit ==
    /\ arg = <<>>
    /\ ret = <<>>

Init == TInit /\ AInit /\ PInit

Next ==
    \/ \E t \in Callers : ConnectVirtual(t)
    \/ \E t \in Callers : ConnectOpen(t)
    \/ \E t \in Callers : ConnectRun(t)
    \/ \E t \in Callers : DisconnectStop(t)
    \/ \E t \in Callers : DisconnectClose(t)
    \/ \E t \in Callers : DisconnectJoin(t)
    \/ \E t \in Callers : JoinExited(t)
    \/ \E t \in Callers : JoinTimedOut(t)
    \/ \E t \in Callers, i \in CanIds, h \in Handlers : register_callback(t, i, h)
    \/ \E t \in Callers, i \in CanIds : unregister_callback(t, i)
    \/ \E t \in Callers : StartCheck(t)
    \/ \E t \in Callers : StartCreate(t)
    \/ \E t \in Callers : StartThread(t)
    \/ \E i \in CanIds : FrameArrives(i)
    \/ \E w \in Workers : WorkerLoop(w)
    \/ \E w \in Workers : WorkerRecv(w)
    \/ \E w \in Workers : WorkerRecvError(w)
    \/ \E w \in Workers : WorkerDispatch(w)
    \/ \E w \in Workers : WorkerHandlerReturns(w)
    \/ \E w \in Workers : WorkerHandlerRaises(w)
    \/ \E w \in Workers : WorkerHandlerExcept(w)
    \/ \E w \in Workers : WorkerHandlerRegisters(w)
    \/ \E t \in Callers : InjectLive(t)
    \/ \E t \in Callers, i \in CanIds : InjectDispatch(t, i)
    \/ \E t \in Callers : InjectHandlerReturns(t)
    \/ \E t \in Callers : InjectHandlerRaises(t)
    \/ \E t \in Callers : InjectHandlerExcept(t)
    \/ \E t \in Callers : InjectHandlerRegisters(t)

Spec == Init /\ [][Next]_vars

\* The transport as main.py drives it: the one main thread makes every call,
\* send() included; the receive workers and the bus run beside it.
NextSeq ==
    \/ ConnectVirtual(MainThread)
    \/ ConnectOpen(MainThread)
    \/ ConnectRun(MainThread)
    \/ DisconnectStop(MainThread)
    \/ DisconnectClose(MainThread)
    \/ DisconnectJoin(MainThread)
    \/ JoinExited(MainThread)
    \/ JoinTimedOut(MainThread)
    \/ \E i \in CanIds, h \in Handlers : register_callback(MainThread, i, h)
    \/ \E i \in CanIds : unregister_callback(MainThread, i)
    \/ \E i \in SendIds, d \in SendPayloads : send(MainThread, i, d)
    \/ SendWrite(MainThread)
    \/ StartCheck(MainThread)
    \/ StartCreate(MainThread)
    \/ StartThread(MainThread)
    \/ \E i \in CanIds : FrameArrives(i)
    \/ \E w \in Workers : WorkerLoop(w)
    \/ \E w \in Workers : WorkerRecv(w)
    \/ \E w \in Workers : WorkerRecvError(w)
    \/ \E w \in Workers : WorkerDispatch(w)
    \/ \E w \in Workers : WorkerHandlerReturns(w)
    \/ \E w \in Workers : WorkerHandlerRaises(w)
    \/ \E w \in Workers : WorkerHandlerExcept(w)
    \/ \E w \in Workers : WorkerHandlerRegisters(w)
    \/ InjectLive(MainThread)
    \/ \E i \in CanIds : InjectDispatch(MainThread, i)
    \/ InjectHandlerReturns(MainThread)
    \/ InjectHandlerRaises(MainThread)
    \/ InjectHandlerExcept(MainThread)
    \/ InjectHandlerRegisters(MainThread)

SpecSeq == Init /\ [][NextSeq]_vars

\* The aggregator on its own: frames reach on_can_message one at a time (the
\* transport calls a handler with the dispatch lock held; the simulator calls
\* it from its one thread).
NextAgg ==
    \E i \in AggIds, d \in Payloads :
        /\ agg_calls < MaxArrivals
        /\ on_can_message(i, d)
        /\ UNCHANGED pvars

SpecAgg == Init /\ [][NextAgg]_vars

\* The transport and the aggregator, each in a run of its own: the behaviours
\* of Spec together with those of SpecAgg.
NextParts ==
    \/ agg_calls = 0 /\ Next
    \/ calls = 0 /\ NextAgg

SpecParts == Init /\ [][NextParts]_vars

\* merge_status_frames called on its own.  The records given: partial records
\* with fields in common, positive, negative and zero, one of them with the
\* fields no decoder sets, the default record, and None.
MergeRecords ==
    { [VESCStatus EXCEPT !["current_motor"] = 100, !["current_battery"] = 150,
                         !["voltage"] = 480],
      [VESCStatus EXCEPT !["current_battery"] = -20, !["rpm"] = -7],
      [VESCStatus EXCEPT !["rpm"] = 3000, !["voltage"] = 500,
                         !["tachometer_abs"] = <<1, 0>>],
      [VESCStatus EXCEPT !["current_motor"] = 50, !["temp_motor"] = 300,
                         !["fault_code"] = 3, !["power"] = 5,
                         !["efficiency"] = 90],
      VESCStatus,
      NoStatus }

SeqUpTo(S, n) == UNION {[1..k -> S] : k \in 0..n}

\* decode_status_frame called on its own: every identifier of AggIds with every
\* payload of bytes 0x00 and 0xFF up to MaxPayloadLen bytes long.
WireBytes == {0, 255}

InitCodec ==
    /\ TInit /\ AInit
    /\ arg \in [can_id : AggIds, data : SeqUpTo(WireBytes, MaxPayloadLen)]
    /\ ret = <<>>

\* 52-74: the call returns a record or None, or struct.error leaves it.
DecodeCall ==
    /\ ret = <<>>
    /\ ret' = Append(ret, decode_status_frame(arg.can_id, arg.data))
    /\ UNCHANGED <<arg, tvars, avars>>

SpecCodec == InitCodec /\ [][DecodeCall]_vars

(***************************************************************************)
(* The generator's side of the wire (mock/simulator.py, _generate_packets) *)
(***************************************************************************)
\* struct.pack, little-endian: "B", "H", "h", "i" and "I" of one integer.  A
\* value outside the range of its format raises struct.error.  Every integer
\* of the model is in the range of "i"; the unsigned word of "I" is given as
\* its two halves.
PackU8(x) == IF x < 0 \/ x > 255 THEN PackError ELSE <<x>>
PackU16(x) ==
    IF x < 0 \/ x > 65535 THEN PackError ELSE <<x % 256, x \div 256>>
PackS16(x) ==
    IF x < -32768 \/ x > 32767 THEN PackError
    ELSE PackU16(IF x < 0 THEN x + 65536 ELSE x)
PackS32(x) ==
    LET y == IF x < 0 THEN (x + 2147483647) + 1 ELSE x
        top == (y \div 16777216) + (IF x < 0 THEN 128 ELSE 0)
    IN  <<y % 256, (y \div 256) % 256, (y \div 65536) % 256, top>>
PackU32(w) == <<w[1] % 256, w[1] \div 256, w[2] % 256, w[2] \div 256>>

\* The bytes of the parts one after the other, or the error of a part.
RECURSIVE Flatten(_)
Flatten(parts) ==
    IF parts = <<>> THEN <<>> ELSE Head(parts) \o Flatten(Tail(parts))
Join(parts) ==
    IF \E k \in 1..Len(parts) : parts[k] = PackError THEN PackError
    ELSE Flatten(parts)

\* 138, 143, 152, 160, 168: the payload of a frame of each type from its raw
\* integers: "<hhhBx", "<iHxx", "<ii", "<ii", "<iI".
Pack(can_id, raw) ==
    CASE can_id = CAN_PACKET_STATUS ->
             Join(<<PackS16(raw[1]), PackS16(raw[2]), PackS16(raw[3]),
                    PackU8(raw[4]), <<0>>>>)
      [] can_id = CAN_PACKET_STATUS_2 ->
             Join(<<PackS32(raw[1]), PackU16(raw[2]), <<0, 0>>>>)
      [] can_id \in {CAN_PACKET_STATUS_3, CAN_PACKET_STATUS_4} ->
             Join(<<PackS32(raw[1]), PackS32(raw[2])>>)
      [] can_id = CAN_PACKET_STATUS_5 ->
             Join(<<PackS32(raw[1]), PackU32(raw[2])>>)

\* Frames to pack, as type and raw integers in the order of the layout, each
\* integer in the range the frame type states for it: temperature and
\* currents, and duty in thousandths (0 to 1000); rpm and voltage; charge;
\* energy; tachometer and absolute tachometer.
WireFrames ==
    [can_id : {CAN_PACKET_STATUS},
     raw : {<<250, 100, 150, d>> : d \in {50, 255, 256, 500}}
              \cup {<<-50, -100, 0, d>> : d \in {0, 1000}}]
    \cup [can_id : {CAN_PACKET_STATUS_2}, raw : {<<3000, 480>>, <<-3000, 65535>>}]
    \cup [can_id : {CAN_PACKET_STATUS_3, CAN_PACKET_STATUS_4},
          raw : {<<12, 0>>, <<-12, 2147483647>>}]
    \cup [can_id : {CAN_PACKET_STATUS_5},
          raw : {<<700, <<700, 0>>>>, <<-700, <<65535, 65535>>>>}]

\* main.py 377-384: virtual mode, the generator's callback is on_can_message.
InitWire ==
    /\ TInit /\ virtual
    /\ AInit
    /\ arg \in SeqUpTo(WireFrames, MaxWireFrames)
    /\ ret = <<>>

\* 138-139 and the like: the next frame is packed and handed to the callback;
\* a struct.error of pack ends the generation before the callback is called.
EmitPacket ==
    /\ Len(ret) < Len(arg)
    /\ \A k \in 1..Len(ret) : ret[k] # PackError
    /\ LET frame == arg[Len(ret) + 1]
           data == Pack(frame.can_id, frame.raw)
       IN  /\ ret' = Append(ret, data)
           /\ IF data = PackError
                 THEN UNCHANGED <<tvars, avars>>
                 ELSE on_can_message(frame.can_id, data)
    /\ UNCHANGED arg

SpecWire == InitWire /\ [][EmitPacket]_vars

(***************************************************************************)
(* One generation step of the simulator (mock/simulator.py)                *)
(***************************************************************************)
\* The simulator's numbers are floats; the model holds throttle and brake in
\* tenths, temperature and voltage in tenths, rpm and sim_time as integers.
\* 45-51: set_throttle and set_brake clamp the value to 0.0 .. 1.0.
set_throttle(value) == IF value < 0 THEN 0 ELSE IF value > 10 THEN 10 ELSE value
set_brake(value) == IF value < 0 THEN 0 ELSE IF value > 10 THEN 10 ELSE value

\* States of the simulator at the start of a generation step: throttle and
\* brake as their setters leave them, rpm between 0 and max_rpm (96), the
\* temperature from 25 degrees up (110-111), the voltage near 48 V (119-120).
SimStates ==
    [throttle : {set_throttle(v) : v \in {-5, 0, 2, 3, 15}},
     brake : {set_brake(v) : v \in {-5, 5, 15}},
     rpm : {0, 3000},
     voltage : {480, 452},
     temp_mos : {250},
     sim_time : {0, 10}]

\* 127-168: the five frames of a step, as type and raw integers, in the order
\* in which they are packed and handed to the callback.  int() of a float
\* product is given by integer division (exact up to the float's rounding):
\*   duty_raw = int(throttle * (1 - brake) * 1000)
\*   current_motor_raw = int(rpm / (48 * 130) * 50 * 10)
\*   current_battery_raw = int(rpm / (48 * 130) * 50 * 1.15 * 10)
\*   ah_consumed_raw = int(sim_time * battery_current / 3600 * 10000)
\*   wh_consumed_raw = int(ah_consumed * voltage * 10000)
\*   tachometer = int(rpm * 7 / 60 * sim_time)
_generate_packets(sim) ==
    LET duty_raw == sim.throttle * (10 - sim.brake) * 10
        current_motor_raw == (sim.rpm * 500) \div 6240
        current_battery_raw == (sim.rpm * 575) \div 6240
        ah_consumed_raw == (sim.sim_time * sim.rpm * 575) \div 22464
        wh_consumed_raw == (ah_consumed_raw * sim.voltage) \div 10
        tachometer == (sim.rpm * 7 * sim.sim_time) \div 60
    IN  << [can_id |-> CAN_PACKET_STATUS,
            raw |-> <<sim.temp_mos, current_motor_raw, current_battery_raw, duty_raw>>],
           [can_id |-> CAN_PACKET_STATUS_2, raw |-> <<sim.rpm, sim.voltage>>],
           [can_id |-> CAN_PACKET_STATUS_3, raw |-> <<ah_consumed_raw, 0>>],
           [can_id |-> CAN_PACKET_STATUS_4, raw |-> <<wh_consumed_raw, 0>>],
           [can_id |-> CAN_PACKET_STATUS_5,
            raw |-> <<tachometer, <<tachometer % 65536, tachometer \div 65536>>>>] >>

\* main.py 377-392: virtual mode; the simulator's callback is on_can_message
\* (383-384); simulator.py 72-73: one generation step from a state of the
\* simulator.
InitGen ==
    /\ TInit /\ virtual
    /\ AInit
    /\ arg \in {_generate_packets(sim) : sim \in SimStates}
    /\ ret = <<>>

SpecGen == InitGen /\ [][EmitPacket]_vars

InitMerge ==
    /\ TInit /\ AInit
    /\ arg \in SeqUpTo(MergeRecords, MaxMergeFrames)
    /\ ret = <<>>

\* 172-224: the call returns the merged record; the records given are read only.
MergeCall ==
    /\ ret = <<>>
    /\ ret' = Append(ret, merge_status_frames(arg))
    /\ UNCHANGED <<arg, tvars, avars>>

SpecMerge == InitMerge /\ [][MergeCall]_vars


\* The steps a worker takes by itself, and those a caller takes to finish the
\* call it is in: the scheduler runs every thread that can run.  Frame
\* arrivals, read errors and new API calls are up to the environment.
WorkerProgress(w) ==
    \/ WorkerLoop(w) \/ WorkerRecv(w) \/ WorkerDispatch(w)
    \/ WorkerHandlerReturns(w) \/ WorkerHandlerExcept(w)

CallerProgress(t) ==
    \/ ConnectRun(t) \/ DisconnectClose(t) \/ DisconnectJoin(t)
    \/ JoinExited(t) \/ JoinTimedOut(t) \/ StartCreate(t) \/ StartThread(t)
    \/ InjectHandlerReturns(t) \/ InjectHandlerExcept(t)

FairSpec ==
    /\ Spec
    /\ \A w \in Workers : WF_vars(WorkerProgress(w))
    /\ \A t \in Callers : WF_vars(CallerProgress(t))

(***************************************************************************)
(* Properties                                                              *)
(***************************************************************************)
pc(x) == IF x \in Callers THEN cpc[x] ELSE wpc[x]
InHandler(x) == pc(x) \in {"handler", "h_wait"}
InRead(w) == wpc[w] \in {"recv", "recv_unbound"}

\* C1: disconnect() returns from its join only when the worker it joined has
\* exited: at the step on which a disconnect() that was joining returns (with
\* no connect() having intervened), the joined worker is not alive.
C1_DisconnectJoinsWorker ==
    [][\A t \in Callers :
          (cpc[t] = "d_joining" /\ cpc'[t] = "idle" /\ ~running)
             => wpc'[cjoin[t]] \in {"unused", "created", "dead"}]_vars

\* C2: once disconnect() has returned and until a connect() succeeds, no
\* thread is inside a handler, neither a worker of the receive loop nor a
\* caller of inject_virtual_message.
C2_NoHandlerAfterDisconnect ==
    phase = "disconnected" => \A x \in Threads : ~InHandler(x)

\* C3: a handler's exception is caught where it was called: the worker that
\* called it goes on to the next iteration of the receive loop with the
\* dispatch lock released, and inject_virtual_message returns normally to its
\* caller; neither thread ends or is left with an exception.
C3_HandlerFaultContained ==
    [][/\ \A w \in Workers :
             wpc[w] = "except" /\ wpc'[w] # "except"
                => wpc'[w] = "loop" /\ lock' = None
       /\ \A t \in Callers :
             cpc[t] = "except" /\ cpc'[t] # "except"
                => cpc'[t] = "idle" /\ lock' = None]_vars

\* The receive loop has handed a frame to a handler after the handler of an
\* earlier frame had raised.
C3_Witness ==
    /\ ~virtual
    /\ \E s \in faults : \E k \in 1..Len(dispatched) : dispatched[k] > s

\* C4: no thread holds the dispatch lock while it executes a handler.
C4_LockNotHeldInHandler ==
    \A x \in Threads : InHandler(x) => lock # x

\* C5: registration changes made while the receive loop dispatches frames
\* leave the table a map from each identifier to at most one handler and never
\* leave the worker waiting for the dispatch lock that it holds itself.
C5_NoDeadlockNoCorruption ==
    /\ callbacks \in [CanIds -> Handlers \cup {None}]
    /\ \A w \in Workers : ~(wpc[w] = "h_wait" /\ lock = w)

\* C6: once the transport is not running, a worker inside its frame read can
\* always go on by a step of its own, whether or not another frame arrives:
\* the read ends with its timeout and the worker comes to test the running
\* flag and exit.
C6_StoppedWorkerLeavesRead ==
    \A w \in Workers : ~running /\ InRead(w) => ENABLED WorkerProgress(w)

\* C7: while the live transport is connected at most one receive worker is
\* alive, and none is ever created in virtual mode.
C7_AtMostOneWorker ==
    /\ running /\ socket = "open" => Cardinality({w \in Workers : Alive(w)}) <= 1
    /\ virtual => \A w \in Workers : wpc[w] = "unused"

\* C8: frames are handed to handlers in arrival order, one at a time.
C8_DispatchInArrivalOrder ==
    /\ \A i, j \in 1..Len(dispatched) : i < j => dispatched[i] < dispatched[j]
    /\ Cardinality({x \in Threads : InHandler(x)}) <= 1

\* C9: every arrival of a frame with a reserved identifier replaces the cache
\* slot of that identifier by the frame's decoded record and leaves the other
\* slots alone, hands the consumer the merge of the slots in the order of
\* types 1 to 5, and is exactly one emission.
C9_OneMergeOneEmission ==
    [][(agg_calls' = agg_calls + 1 /\ last_frame'.id \in ReservedIds)
          => /\ status_cache' =
                   [status_cache EXCEPT ![last_frame'.id] =
                        decode_status_frame(last_frame'.id, last_frame'.data)]
             /\ snapshot' = merge_status_frames(
                                <<status_cache'[2], status_cache'[3], status_cache'[4],
                                  status_cache'[5], status_cache'[6]>>)
             /\ emits' = emits + 1]_vars

\* A reserved frame has been emitted although it changed no field.
C9_Witness ==
    /\ emits >= 2
    /\ last_frame.id \in ReservedIds
    /\ signals = {}

\* C10: in the snapshot the consumer holds, power is voltage times battery
\* current, and efficiency is motor current times voltage over power (in
\* percent) when power is positive and zero otherwise.
C10_DerivedConsistent ==
    /\ snapshot["power"] = snapshot["voltage"] * snapshot["current_battery"]
    /\ snapshot["efficiency"] =
          IF snapshot["power"] > 0
             THEN (snapshot["current_motor"] * snapshot["voltage"] * 100)
                     \div snapshot["power"]
             ELSE 0

\* A snapshot without power was emitted after frames of both the type that
\* carries the currents and the type that carries the voltage had arrived.
C10_Witness ==
    /\ emits >= 3
    /\ status_cache[CAN_PACKET_STATUS] # NoStatus
    /\ status_cache[CAN_PACKET_STATUS_2] # NoStatus
    /\ snapshot["voltage"] > 0
    /\ snapshot["power"] = 0

\* The value merge_status_frames is to give field f: that of the last of the
\* records, in the order given, in which f is not zero.
LastNonZero(frames, f) ==
    LET at == {k \in 1..Len(frames) : frames[k] # NoStatus /\ frames[k][f] # Zero(f)}
    IN  IF at = {} THEN Zero(f)
        ELSE frames[CHOOSE k \in at : \A j \in at : j <= k][f]

\* C11: merge_status_frames gives every base field the value of the last record
\* given in which the field is not zero, and zero when there is none; records
\* that are None are skipped.
C11_MergeLastNonZero ==
    Len(ret) = 1 => \A f \in BaseFields : ret[1][f] = LastNonZero(arg, f)

\* A merge in which a zero came after a non-zero value of a field and left it,
\* and a non-zero value came after another one of a field and replaced it.
C11_Witness ==
    /\ Len(ret) = 1
    /\ \E f \in BaseFields, i, j \in 1..Len(arg) :
          /\ i < j /\ arg[i] # NoStatus /\ arg[j] # NoStatus
          /\ arg[i][f] # Zero(f) /\ arg[j][f] = Zero(f)
          /\ ret[1][f] = arg[i][f]
    /\ \E f \in BaseFields, i, j \in 1..Len(arg) :
          /\ i < j /\ arg[i] # NoStatus /\ arg[j] # NoStatus
          /\ arg[i][f] # Zero(f) /\ arg[j][f] # Zero(f) /\ arg[i][f] # arg[j][f]
          /\ ret[1][f] = arg[j][f]

\* C12: in every record merge_status_frames returns, power is voltage times
\* battery current, and efficiency is motor current times voltage over power
\* (in percent) when power is positive and zero when it is zero or negative.
C12_MergeDerived ==
    Len(ret) = 1 =>
        /\ ret[1]["power"] = ret[1]["voltage"] * ret[1]["current_battery"]
        /\ ret[1]["efficiency"] =
              IF ret[1]["power"] > 0
                 THEN (ret[1]["current_motor"] * ret[1]["voltage"] * 100)
                         \div ret[1]["power"]
                 ELSE 0

\* A merge whose power is negative although a motor current and a voltage are
\* known.
C12_Witness ==
    /\ Len(ret) = 1
    /\ ret[1]["power"] < 0
    /\ ret[1]["current_motor"] # 0
    /\ ret[1]["voltage"] # 0

\* on_can_message has just been called with a frame of a reserved type.
ReservedArrival == agg_calls' = agg_calls + 1 /\ last_frame'.id \in ReservedIds

\* The frame just handed to on_can_message is well formed, of the type that
\* owns field f, and carries zero for f, while the snapshot held a non-zero f.
ZeroAfterNonZero(f) ==
    /\ ReservedArrival
    /\ Len(last_frame'.data) = 8
    /\ f \in OwnedFields(last_frame'.id)
    /\ decode_status_frame(last_frame'.id, last_frame'.data)[f] = Zero(f)
    /\ snapshot[f] # Zero(f)

\* C13 as stated: a zero reading of a field in a well-formed frame of the
\* owning type does not erase the non-zero value emitted before: the snapshot
\* emitted for that frame still holds the earlier value.
C13_ZeroIsMasked ==
    [][\A f \in BaseFields : ZeroAfterNonZero(f) => snapshot'[f] = snapshot[f]]_vars

\* C13 as amended: such a frame erases the earlier value: the snapshot emitted
\* for it holds zero for the field.
C13_ZeroErases ==
    [][\A f \in BaseFields : ZeroAfterNonZero(f) => snapshot'[f] = Zero(f)]_vars

\* The last frame was well formed, of the primary type, and its emission
\* changed the MOSFET temperature to zero.
C13_Witness ==
    /\ last_frame.id = CAN_PACKET_STATUS
    /\ Len(last_frame.data) = 8
    /\ "temp_mos" \in signals
    /\ snapshot["temp_mos"] = 0

\* C14: a frame of a reserved type with a payload of fewer than 8 bytes carries
\* no new information: the snapshot emitted after it equals, in every field,
\* the snapshot emitted before it.
C14_MalformedKeepsSnapshot ==
    [][(ReservedArrival /\ Len(last_frame'.data) < 8) => snapshot' = snapshot]_vars

\* C15: for each reserved frame type and every payload of 0 to 7 bytes,
\* decode_status_frame returns the record with every field at its default; it
\* does not raise.
C15_ShortPayloadDefault ==
    (Len(ret) = 1 /\ arg.can_id \in ReservedIds /\ Len(arg.data) < 8)
        => ret[1] = VESCStatus

\* A tachometer frame of 7 bytes, none of them zero, has been decoded.
C15_Witness ==
    /\ Len(ret) = 1
    /\ arg.can_id = CAN_PACKET_STATUS_5
    /\ Len(arg.data) = 7
    /\ \A k \in 1..7 : arg.data[k] = 255

\* The wire layout of the five frame types, written out byte by byte: bytes lo
\* and hi as a signed 16-bit integer, and four bytes as a signed 32-bit integer.
LayoutS16(lo, hi) == lo + 256 * hi - (IF hi >= 128 THEN 65536 ELSE 0)
LayoutS32(b0, b1, b2, b3) ==
    b0 + 256 * b1 + 65536 * b2 + 16777216 * (IF b3 >= 128 THEN b3 - 256 ELSE b3)
Layout(can_id, d) ==
    CASE can_id = CAN_PACKET_STATUS ->
             [VESCStatus EXCEPT !["temp_mos"] = LayoutS16(d[1], d[2]),
                                !["current_motor"] = LayoutS16(d[3], d[4]),
                                !["current_battery"] = LayoutS16(d[5], d[6]),
                                !["duty_cycle"] = d[7]]
      [] can_id = CAN_PACKET_STATUS_2 ->
             [VESCStatus EXCEPT !["rpm"] = LayoutS32(d[1], d[2], d[3], d[4]),
                                !["voltage"] = d[5] + 256 * d[6]]
      [] can_id = CAN_PACKET_STATUS_3 ->
             [VESCStatus EXCEPT
                 !["amp_hours_consumed"] = LayoutS32(d[1], d[2], d[3], d[4]),
                 !["amp_hours_charged"] = LayoutS32(d[5], d[6], d[7], d[8])]
      [] can_id = CAN_PACKET_STATUS_4 ->
             [VESCStatus EXCEPT
                 !["watt_hours_consumed"] = LayoutS32(d[1], d[2], d[3], d[4]),
                 !["watt_hours_charged"] = LayoutS32(d[5], d[6], d[7], d[8])]
      [] can_id = CAN_PACKET_STATUS_5 ->
             [VESCStatus EXCEPT
                 !["tachometer"] = LayoutS32(d[1], d[2], d[3], d[4]),
                 !["tachometer_abs"] = <<d[5] + 256 * d[6], d[7] + 256 * d[8]>>]

\* C17: for every payload of 8 bytes, the decode of a frame of a reserved type
\* is the record that has the fields owned by the type read from their byte
\* ranges, little-endian, with their signedness, and every other field zero;
\* temperatures, currents and voltage are in tenths, duty in thousandths,
\* charge and energy in ten-thousandths, rpm and tachometers in units.
C17_DecodeLayout ==
    /\ (Len(ret) = 1 /\ arg.can_id \in ReservedIds /\ Len(arg.data) = 8)
          => ret[1] = Layout(arg.can_id, arg.data)
    /\ \A f \in {"temp_mos", "current_motor", "current_battery", "voltage"} :
          Scale(f) = 10
    /\ Scale("duty_cycle") = 1000
    /\ \A f \in {"amp_hours_consumed", "amp_hours_charged", "watt_hours_consumed",
                  "watt_hours_charged"} : Scale(f) = 10000
    /\ \A f \in {"rpm", "tachometer", "tachometer_abs"} : Scale(f) = 1

\* A primary frame with a negative temperature and a duty byte of 0xFF has been
\* decoded.
C17_Witness ==
    /\ Len(ret) = 1
    /\ arg.can_id = CAN_PACKET_STATUS
    /\ Len(arg.data) = 8
    /\ ret[1]["temp_mos"] < 0
    /\ ret[1]["duty_cycle"] = 255

\* C16: a frame whose identifier is not reserved is ignored without error:
\* decode_status_frame gives None for it, and on_can_message leaves every cache
\* slot and the snapshot as they were and emits nothing; a worker that finds
\* no handler registered for the frame it read calls none and goes on to the
\* next iteration of the receive loop.
C16_UnknownIdIgnored ==
    [][/\ (agg_calls' = agg_calls + 1 /\ last_frame'.id \notin ReservedIds)
            => /\ decode_status_frame(last_frame'.id, last_frame'.data) = NoStatus
               /\ status_cache' = status_cache
               /\ snapshot' = snapshot
               /\ emits' = emits
       /\ \A w \in Workers :
             (wpc[w] = "lock" /\ wpc'[w] # "lock" /\ callbacks[wframe[w].id] = None)
                => /\ wpc'[w] = "loop"
                   /\ dispatched' = dispatched
                   /\ lock' = lock]_vars

\* A frame with an identifier that is not reserved was handed to the
\* aggregator after frames of two reserved types had been merged.
C16_Witness ==
    /\ last_frame.id \notin ReservedIds
    /\ agg_calls = 3
    /\ emits = 2
    /\ status_cache[CAN_PACKET_STATUS] # NoStatus
    /\ status_cache[CAN_PACKET_STATUS_2] # NoStatus

\* The raw integers of the fields a frame type owns, in the order of its
\* layout, as a decoded record holds them.
RawOf(can_id, status) ==
    CASE can_id = CAN_PACKET_STATUS ->
             <<status["temp_mos"], status["current_motor"],
               status["current_battery"], status["duty_cycle"]>>
      [] can_id = CAN_PACKET_STATUS_2 -> <<status["rpm"], status["voltage"]>>
      [] can_id = CAN_PACKET_STATUS_3 ->
             <<status["amp_hours_consumed"], status["amp_hours_charged"]>>
      [] can_id = CAN_PACKET_STATUS_4 ->
             <<status["watt_hours_consumed"], status["watt_hours_charged"]>>
      [] can_id = CAN_PACKET_STATUS_5 ->
             <<status["tachometer"], status["tachometer_abs"]>>

\* C18: for every frame type and every value in the range stated for a field
\* (duty 0 to 1000 among them), packing the values in the frame's layout gives
\* a payload, and decoding the payload gives the values back.
C18_RoundTrip ==
    \A k \in 1..Len(ret) :
        /\ ret[k] # PackError
        /\ RawOf(arg[k].can_id, decode_status_frame(arg[k].can_id, ret[k]))
              = arg[k].raw

\* The generation has come to its end: every frame was handed over, or pack
\* raised.
WireDone ==
    \/ Len(ret) = Len(arg)
    \/ ret # <<>> /\ ret[Len(ret)] = PackError

\* C19: from an empty aggregator, a primary frame of raw temperature 250,
\* motor current 100, battery current 150 and duty 500, then an rpm and
\* voltage frame of rpm 3000 and raw voltage 480, leave the emitted snapshot
\* with rpm 3000, voltage 48.0, duty cycle 0.5 and power 720.0.
C19_EndToEnd ==
    (/\ arg = << [can_id |-> CAN_PACKET_STATUS, raw |-> <<250, 100, 150, 500>>],
                 [can_id |-> CAN_PACKET_STATUS_2, raw |-> <<3000, 480>>] >>
     /\ WireDone)
        => /\ emits = 2
           /\ snapshot["rpm"] = 3000
           /\ snapshot["voltage"] = 480
           /\ snapshot["duty_cycle"] = 500
           /\ snapshot["power"] = 72000

(***************************************************************************)
(* connect and disconnect as contracts                                     *)
(***************************************************************************)
\* The step of a live connect() that did not open the endpoint: the call ends
\* in that step, socket() or bind() having failed.
ConnectFails(t) == ConnectOpen(t) /\ cpc'[t] # "c_run"

\* C21 as stated: connect() on a live transport sets running exactly when it
\* opened the endpoint; when the endpoint cannot be opened the call ends by an
\* exception that reaches the caller (ConnectionError), a transport that was
\* not running stays not running, and the open is not tried again.
C21_ConnectFailureRaises ==
    [][\A t \in Callers :
          /\ ConnectFails(t) =>
                /\ cpc'[t] = "raised"
                /\ ~running => ~running'
          /\ ConnectRun(t) => running'
          /\ (~virtual /\ ~running /\ running') => \E u \in Callers : ConnectRun(u)]_vars

\* C21 amended: as C21, but the failure reaches the caller as the return value
\* False: the call returns in the step that failed (no exception, no second
\* open), a transport that was not running stays not running; running is set
\* only by the second step of a connect() whose open succeeded.
C21_ConnectFailureReturns ==
    [][\A t \in Callers :
          /\ ConnectFails(t) =>
                /\ cpc'[t] = "idle"
                /\ ~running => ~running'
          /\ (ConnectOpen(t) /\ ~ConnectFails(t)) => socket' = "open"
          /\ ConnectRun(t) => running'
          /\ (~virtual /\ ~running /\ running') => \E u \in Callers : ConnectRun(u)]_vars

\* A live transport after a connect() whose bind failed: not running, nobody
\* in a call, the unbound socket left in the field.
C21_Witness ==
    /\ ~virtual /\ ~running /\ socket = "unbound" /\ phase = "new"
    /\ \A t \in Callers : cpc[t] = "idle"

\* C22: in virtual mode every connect() succeeds in one step, leaving the
\* transport running and the caller back from the call, and the socket field
\* is None in every reachable state of a virtual transport.
C22_VirtualConnect ==
    /\ [](virtual => socket = None)
    /\ [][\A t \in Callers :
             ConnectVirtual(t) => running' /\ cpc'[t] = "idle" /\ socket' = None]_vars

\* A virtual transport that is running after a connect().
C22_Witness == virtual /\ running /\ phase = "connected" /\ socket = None

\* A step of disconnect() made by t, and the step on which the call returns.
DisconnectStep(t) ==
    \/ DisconnectStop(t) \/ DisconnectClose(t) \/ DisconnectJoin(t)
    \/ JoinExited(t) \/ JoinTimedOut(t)
DisconnectReturns(t) == DisconnectStep(t) /\ cpc'[t] = "idle"

\* The state a disconnect() is to leave: not running, no socket, no live worker.
Disconnected == ~running /\ socket = None /\ \A w \in Workers : ~Alive(w)

\* C23: disconnect() never raises; called on a transport that is already
\* disconnected (or was never connected) it changes neither the running flag,
\* the socket, the worker nor the table; and whenever it returns the transport
\* is not running, has no socket and has no live worker, so that a second call
\* right after the first finds that state and leaves it as it is.
C23_DisconnectIdempotent ==
    [][\A t \in Callers :
          /\ DisconnectStep(t) => cpc'[t] # "raised"
          /\ (DisconnectStep(t) /\ Disconnected) =>
                UNCHANGED <<running, socket, receive_thread, callbacks, wpc, rxq>>
          /\ DisconnectReturns(t) => Disconnected']_vars

\* The part of C23 that does not speak of the worker.
C23_FlagsIdempotent ==
    [][\A t \in Callers :
          /\ DisconnectStep(t) => cpc'[t] # "raised"
          /\ (DisconnectStep(t) /\ ~running /\ socket = None) =>
                UNCHANGED <<running, socket, receive_thread, callbacks, wpc, rxq>>
          /\ DisconnectReturns(t) => ~running' /\ socket' = None]_vars

\* C24: when disconnect() returns, the dispatch table is empty.
C24_TableClearedOnDisconnect ==
    [][\A t \in Callers :
          DisconnectReturns(t) => callbacks' = [i \in CanIds |-> None]]_vars

(***************************************************************************)
(* send                                                                    *)
(***************************************************************************)
\* The step of a send() that wrote a packet to the socket, and the step of one
\* whose pack or write raised.
SendWrote(t) == SendWrite(t) /\ tx'.n = tx.n + 1
SendFailed(t) == SendWrite(t) /\ tx'.err = tx.err + 1

\* C25: every packet send() writes to the socket of a running live transport
\* has a data field of exactly 8 bytes: the first 8 bytes of a longer payload,
\* an 8-byte payload as it is, a shorter payload followed by zero bytes.
C25_SendPayloadField ==
    [][\A t \in Callers :
          SendWrote(t) =>
             LET data == sending[t].data
                 field == tx'.pkt[3]
             IN  /\ Len(field) = 8
                 /\ Len(data) > 8 => field = SubSeq(data, 1, 8)
                 /\ Len(data) = 8 => field = data
                 /\ Len(data) < 8 =>
                       /\ SubSeq(field, 1, Len(data)) = data
                       /\ \A k \in (Len(data) + 1)..8 : field[k] = 0]_vars

\* A short payload has been written, zero filled.
C25_Witness == tx.n > 0 /\ tx.pkt[3] = <<1, 2, 3, 0, 0, 0, 0, 0>>

\* C26: in live mode a send() whose write (or pack) fails does not raise: it
\* returns False to its caller, and the step changes neither the running flag,
\* the socket, the table nor any receive worker.
C26_SendFailureReturnsFalse ==
    [][\A t \in Callers :
          SendFailed(t) =>
             /\ cpc'[t] = "idle" /\ sret'[t] = "False"
             /\ UNCHANGED <<running, socket, callbacks, receive_thread, wpc, tx.n>>]_vars

\* A write has failed on a running transport with its socket open, and the
\* caller is back with False while a receive worker is alive.
C26_Witness ==
    /\ tx.err > 0 /\ running /\ socket = "open"
    /\ sret[MainThread] = "False" /\ cpc[MainThread] = "idle"
    /\ \E w \in Workers : Alive(w)

\* C27: in virtual mode send() ends in one step that writes no packet, hands
\* no frame to a handler, takes no lock and leaves the running flag and the
\* table as they are.
C27_VirtualSendNoOp ==
    [][\A t \in Callers, i \in SendIds, d \in SendPayloads :
          (virtual /\ send(t, i, d)) =>
             /\ cpc'[t] = "idle" /\ sret'[t] \in {"True", "False"}
             /\ UNCHANGED <<tx, arrived, dispatched, faults, lock, wframe,
                            running, callbacks, socket>>]_vars

\* A virtual send() has returned True with a handler registered for the
\* identifier 2 and nothing dispatched.
C27_Witness ==
    /\ virtual /\ running /\ sret[MainThread] = "True"
    /\ callbacks[2] # None /\ dispatched = <<>> /\ tx.n = 0

(***************************************************************************)
(* The generator's step                                                    *)
(***************************************************************************)
\* C28: a generation step, from any throttle and brake setting and any state
\* of the simulator, hands five frames to its callback, on the identifiers of
\* status 1 to 5 in that order, each with a payload of 8 bytes that decodes to
\* the values packed, and no pack raises.
C28_GeneratorEmitsFive ==
    WireDone =>
        /\ Len(ret) = 5 /\ agg_calls = 5
        /\ \A k \in 1..Len(ret) :
              /\ ret[k] # PackError
              /\ Len(ret[k]) = 8
              /\ arg[k].can_id = CAN_PACKET_STATUS + (k - 1)
              /\ RawOf(arg[k].can_id, decode_status_frame(arg[k].can_id, ret[k]))
                    = arg[k].raw

(***************************************************************************)
(* The snapshot, field by field                                            *)
(***************************************************************************)
\* C29: the base fields of the snapshot are zero until a frame of their type
\* arrives; a frame on a reserved identifier, well formed or not, sets every
\* field its type owns to the value decoded from that frame and leaves every
\* other base field as it was; a frame on another identifier changes nothing.
\* Hence each base field always holds the value decoded from the most recent
\* frame of the one type that owns it, or zero.
C29_FieldFromLatestFrame ==
    /\ [](\A i \in ReservedIds :
             status_cache[i] = NoStatus
                => \A f \in OwnedFields(i) : snapshot[f] = Zero(f))
    /\ [](\A f \in BaseFields :
             (\A i \in ReservedIds : f \notin OwnedFields(i)) => snapshot[f] = Zero(f))
    /\ [][agg_calls' = agg_calls + 1 =>
             LET id == last_frame'.id
                 decoded == decode_status_frame(id, last_frame'.data)
             IN  IF id \in ReservedIds
                    THEN \A f \in BaseFields :
                            snapshot'[f] = IF f \in OwnedFields(id) THEN decoded[f]
                                                                     ELSE snapshot[f]
                    ELSE snapshot' = snapshot]_vars

\* Three frames of the rpm and voltage type and of no other type have arrived,
\* each was emitted, and the snapshot holds the rpm of the last one.
C29_Witness ==
    /\ agg_calls = 3 /\ emits = 3
    /\ last_frame = [id |-> CAN_PACKET_STATUS_2, data |-> <<184, 11, 0, 0, 224, 1, 0, 0>>]
    /\ \A i \in ReservedIds \ {CAN_PACKET_STATUS_2} : status_cache[i] = NoStatus
    /\ snapshot["rpm"] = 3000

(***************************************************************************)
(* The receive worker after a read error                                   *)
(***************************************************************************)
\* C30: a read error ends the worker it happens to and leaves the running
\* flag as it is, and the transport then has no live worker; a worker comes
\* alive only by a start_receive_thread(); and while a live transport has no
\* live worker no frame is handed to a handler.
C30_ReadErrorEndsWorker ==
    [][/\ \A w \in Workers :
             /\ WorkerRecvError(w) =>
                   /\ wpc'[w] = "dead" /\ running' = running
                   /\ \A v \in Workers : ~Alive(v)'
             /\ (~Alive(w) /\ Alive(w)') => \E t \in Callers : StartThread(t)
       /\ (~virtual /\ \A w \in Workers : ~Alive(w)) => dispatched' = dispatched]_vars

Invokes(x) == called[x] = None /\ called'[x] # None

\* C32: the table has one entry per identifier and changes only by
\* register_callback and unregister_callback; register_callback puts its
\* handler in the entry of its identifier, whatever was there, and leaves the
\* other entries; unregister_callback on an identifier without entry changes
\* nothing and returns; a thread that enters a handler enters the one the
\* table holds for the frame's identifier at that moment, for a frame that was
\* not dispatched before, and no frame is dispatched twice.
C32_OneHandlerPerIdentifier ==
    /\ [][/\ \A t \in Callers, i \in CanIds, h \in Handlers :
                register_callback(t, i, h) =>
                   /\ callbacks'[i] = h
                   /\ \A j \in CanIds \ {i} : callbacks'[j] = callbacks[j]
          /\ \A t \in Callers, i \in CanIds :
                (unregister_callback(t, i) /\ callbacks[i] = None) =>
                   callbacks' = callbacks /\ cpc'[t] = "idle"
          /\ callbacks' # callbacks =>
                \/ \E t \in Callers, i \in CanIds, h \in Handlers : register_callback(t, i, h)
                \/ \E t \in Callers, i \in CanIds : unregister_callback(t, i)
          /\ \A x \in Threads :
                Invokes(x) =>
                   /\ called'[x] = callbacks[wframe'[x].id]
                   /\ \A k \in 1..Len(dispatched) : dispatched[k] # wframe'[x].seq
                   /\ dispatched' = Append(dispatched, wframe'[x].seq)
                   /\ \A y \in Threads \ {x} : called'[y] = called[y]]_vars
    /\ [](\A k, m \in 1..Len(dispatched) : dispatched[k] = dispatched[m] => k = m)
    /\ [](\A x \in Threads : called[x] # None => called[x] = callbacks[wframe[x].id])

\* A thread is running h2 for a frame with identifier 2 while identifier 3
\* has the handler h1.
C32_Witness ==
    /\ \E x \in Threads : called[x] = "h2" /\ wframe[x].id = 2
    /\ callbacks[2] = "h2" /\ callbacks[3] = "h1"

============================================================================
